---- MODULE Spec2Model ----
(***************************************************************************)
(* A model of the two generators of src/prng: PcgRng (pcg.rs) and          *)
(* Xoshiro256AARng (xoshiro256.rs).                                        *)
(*                                                                         *)
(* A u64 is a tuple of 8 bytes, least significant first (TLC's integers    *)
(* are 32 bits wide, so a 64-bit word cannot be one integer).  All the     *)
(* arithmetic below is therefore exact arithmetic modulo 2^64, as that of  *)
(* core::num::Wrapping<u64>.  A u32 is a tuple of 4 bytes.                 *)
(***************************************************************************)
EXTENDS Integers, Sequences, FiniteSets, TLC

----------------------------------------------------------------------------
(* Wrapping<u64> arithmetic on 8-byte tuples                               *)

\* 2^n for n in 0..8.
Pow2(n) == <<1, 2, 4, 8, 16, 32, 64, 128, 256>>[n + 1]

Zero64 == <<0, 0, 0, 0, 0, 0, 0, 0>>

One64 == <<1, 0, 0, 0, 0, 0, 0, 0>>

\* The u64 whose 16-bit quarters are h3 h2 h1 h0, most significant first.
Hex64(h3, h2, h1, h0) ==
    <<h0 % 256, h0 \div 256, h1 % 256, h1 \div 256,
      h2 % 256, h2 \div 256, h3 % 256, h3 \div 256>>

\* The u64 n for a small natural n.
Nat64(n) == <<n % 256, (n \div 256) % 256, (n \div 65536) % 256,
              (n \div 16777216) % 256, 0, 0, 0, 0>>

\* Carry propagation over 8 columns, dropping the carry out of the top byte.
Carry8(c1, c2, c3, c4, c5, c6, c7, c8) ==
    LET v1 == c1
        v2 == c2 + (v1 \div 256)
        v3 == c3 + (v2 \div 256)
        v4 == c4 + (v3 \div 256)
        v5 == c5 + (v4 \div 256)
        v6 == c6 + (v5 \div 256)
        v7 == c7 + (v6 \div 256)
        v8 == c8 + (v7 \div 256)
    IN  <<v1 % 256, v2 % 256, v3 % 256, v4 % 256,
          v5 % 256, v6 % 256, v7 % 256, v8 % 256>>

\* a + b, wrapping.
Add64(a, b) ==
    Carry8(a[1] + b[1], a[2] + b[2], a[3] + b[3], a[4] + b[4],
           a[5] + b[5], a[6] + b[6], a[7] + b[7], a[8] + b[8])

\* a * b, wrapping: the low 8 columns of the schoolbook product.
Mul64(a, b) ==
    Carry8(a[1]*b[1],
           a[1]*b[2] + a[2]*b[1],
           a[1]*b[3] + a[2]*b[2] + a[3]*b[1],
           a[1]*b[4] + a[2]*b[3] + a[3]*b[2] + a[4]*b[1],
           a[1]*b[5] + a[2]*b[4] + a[3]*b[3] + a[4]*b[2] + a[5]*b[1],
           a[1]*b[6] + a[2]*b[5] + a[3]*b[4] + a[4]*b[3] + a[5]*b[2]
             + a[6]*b[1],
           a[1]*b[7] + a[2]*b[6] + a[3]*b[5] + a[4]*b[4] + a[5]*b[3]
             + a[6]*b[2] + a[7]*b[1],
           a[1]*b[8] + a[2]*b[7] + a[3]*b[6] + a[4]*b[5] + a[5]*b[4]
             + a[6]*b[3] + a[7]*b[2] + a[8]*b[1])

\* Bitwise exclusive or of two naturals below 2^n.
RECURSIVE XorBits(_, _, _)
XorBits(x, y, n) ==
    IF n = 0 THEN 0
    ELSE ((x + y) % 2) + 2 * XorBits(x \div 2, y \div 2, n - 1)

\* Bitwise or of two naturals below 2^n.
RECURSIVE OrBits(_, _, _)
OrBits(x, y, n) ==
    IF n = 0 THEN 0
    ELSE (IF x % 2 = 1 \/ y % 2 = 1 THEN 1 ELSE 0)
           + 2 * OrBits(x \div 2, y \div 2, n - 1)

\* The exclusive or of two bytes, tabulated once: XorTab[x + 1][y + 1].
XorRow(x) == SubSeq([y \in 1..256 |-> XorBits(x, y - 1, 8)], 1, 256)

XorTab == SubSeq([x \in 1..256 |-> XorRow(x - 1)], 1, 256)

Xor64(a, b) ==
    <<XorTab[a[1] + 1][b[1] + 1], XorTab[a[2] + 1][b[2] + 1],
      XorTab[a[3] + 1][b[3] + 1], XorTab[a[4] + 1][b[4] + 1],
      XorTab[a[5] + 1][b[5] + 1], XorTab[a[6] + 1][b[6] + 1],
      XorTab[a[7] + 1][b[7] + 1], XorTab[a[8] + 1][b[8] + 1]>>

Or64(a, b) ==
    <<OrBits(a[1], b[1], 8), OrBits(a[2], b[2], 8),
      OrBits(a[3], b[3], 8), OrBits(a[4], b[4], 8),
      OrBits(a[5], b[5], 8), OrBits(a[6], b[6], 8),
      OrBits(a[7], b[7], 8), OrBits(a[8], b[8], 8)>>

\* Byte i (1..8) of a, and 0 outside the word.
ByteOr0(a, i) == IF i >= 1 /\ i <= 8 THEN a[i] ELSE 0

\* Byte i of a << n, 0 <= n < 64.
ShlByte(a, n, i) ==
    LET q == n \div 8
        r == n % 8
    IN  ((ByteOr0(a, i - q) * Pow2(r)) % 256)
          + (ByteOr0(a, i - q - 1) \div Pow2(8 - r))

Shl64(a, n) ==
    <<ShlByte(a, n, 1), ShlByte(a, n, 2), ShlByte(a, n, 3), ShlByte(a, n, 4),
      ShlByte(a, n, 5), ShlByte(a, n, 6), ShlByte(a, n, 7), ShlByte(a, n, 8)>>

\* Byte i of a >> n, 0 <= n < 64.
ShrByte(a, n, i) ==
    LET q == n \div 8
        r == n % 8
    IN  (ByteOr0(a, i + q) \div Pow2(r))
          + ((ByteOr0(a, i + q + 1) * Pow2(8 - r)) % 256)

Shr64(a, n) ==
    <<ShrByte(a, n, 1), ShrByte(a, n, 2), ShrByte(a, n, 3), ShrByte(a, n, 4),
      ShrByte(a, n, 5), ShrByte(a, n, 6), ShrByte(a, n, 7), ShrByte(a, n, 8)>>

\* Byte i of a rotated left by n bits, 0 <= n < 64: the bytes of a << n
\* and of a >> (64 - n) have no bit in common, so their or is their sum.
RotLByte(a, n, i) ==
    LET q == n \div 8
        r == n % 8
    IN  ((a[((i - q - 1) % 8) + 1] * Pow2(r)) % 256)
          + (a[((i - q - 2) % 8) + 1] \div Pow2(8 - r))

\* u64::rotate_left(n), 0 <= n < 64.
RotL64(a, n) ==
    <<RotLByte(a, n, 1), RotLByte(a, n, 2), RotLByte(a, n, 3),
      RotLByte(a, n, 4), RotLByte(a, n, 5), RotLByte(a, n, 6),
      RotLByte(a, n, 7), RotLByte(a, n, 8)>>

\* Bit b (0..63) of a.
Bit64(a, b) == (a[(b \div 8) + 1] \div Pow2(b % 8)) % 2

\* The u64 written in decimal as groups of three digits, most significant
\* group first: Dec64(<<18, 446>>) is 18446.
RECURSIVE Dec64Acc(_, _, _)
Dec64Acc(g, i, acc) ==
    IF i > Len(g) THEN acc
    ELSE Dec64Acc(g, i + 1, Add64(Mul64(acc, Nat64(1000)), Nat64(g[i])))

Dec64(g) == Dec64Acc(g, 1, Zero64)

\* le::read_u64_into: word k (1-based) of a little-endian byte seed.
ReadU64LE(bytes, k) == SubSeq(bytes, 8 * (k - 1) + 1, 8 * k)

\* The same 8 bytes read as a big-endian word.
ReadU64BE(bytes, k) ==
    LET o == 8 * (k - 1)
    IN  <<bytes[o + 8], bytes[o + 7], bytes[o + 6], bytes[o + 5],
          bytes[o + 4], bytes[o + 3], bytes[o + 2], bytes[o + 1]>>

----------------------------------------------------------------------------
(* xoshiro256.rs                                                           *)

JUMP == <<Hex64(6158, 50899, 15613, 2746),
          Hex64(54694, 4710, 61641, 14636),
          Hex64(43352, 9752, 57407, 51626),
          Hex64(14763, 56389, 10673, 26140)>>

\* Mutant: a preset whose s1 word is zero.
ZeroSeedPresetS1Zero == <<Hex64(10479, 15431, 43057, 64796),
                          Zero64,
                          Hex64(33911, 1910, 24271, 44228),
                          Hex64(45919, 15788, 22105, 436)>>

\* The preset state from_seed uses for the all-zero seed.
ZeroSeedPreset == <<Hex64(10479, 15431, 43057, 64796),
                    Hex64(36503, 23057, 30880, 9435),
                    Hex64(33911, 1910, 24271, 44228),
                    Hex64(45919, 15788, 22105, 436)>>

AllZero(ws) == \A k \in 1..Len(ws) : ws[k] = Zero64

\* Mutant: the output scrambles s0 instead of s1.
XoResultFromS0(s) == Mul64(RotL64(Mul64(s[1], Nat64(5)), 7), Nat64(9))

\* The value next_u64 returns, from the state before the update.
XoResult(s) == Mul64(RotL64(Mul64(s[2], Nat64(5)), 7), Nat64(9))

\* Mutant: s1 ^= s2 and s0 ^= s3 read s2 and s3 as they were before
\* s2 ^= s0 and s3 ^= s1.
XoStepStaleS2(s) ==
    LET t   == Shl64(s[2], 17)
        s2a == Xor64(s[3], s[1])
        s3a == Xor64(s[4], s[2])
        s1a == Xor64(s[2], s[3])
        s0a == Xor64(s[1], s[4])
        s2b == Xor64(s2a, t)
        s3b == RotL64(s3a, 45)
    IN  <<s0a, s1a, s2b, s3b>>

\* The state next_u64 leaves; s = <<s0, s1, s2, s3>>.
XoStep(s) ==
    LET t   == Shl64(s[2], 17)
        s2a == Xor64(s[3], s[1])
        s3a == Xor64(s[4], s[2])
        s1a == Xor64(s[2], s2a)
        s0a == Xor64(s[1], s3a)
        s2b == Xor64(s2a, t)
        s3b == RotL64(s3a, 45)
    IN  <<s0a, s1a, s2b, s3b>>

XorState(a, b) ==
    <<Xor64(a[1], b[1]), Xor64(a[2], b[2]),
      Xor64(a[3], b[3]), Xor64(a[4], b[4])>>

\* Mutant: the generator is stepped before the XOR instead of after it.
JumpBitStepFirst(i, b, st) ==
    <<IF Bit64(i, b) > 0 THEN XorState(st[1], XoStep(st[2])) ELSE st[1],
      XoStep(st[2])>>

\* The body of the inner loop of jump for bit b of the JUMP word i; st is
\* <<acc, s>>: acc the local <<s0, s1, s2, s3>>, s the generator's state.
JumpBit(i, b, st) ==
    <<IF Bit64(i, b) > 0 THEN XorState(st[1], st[2]) ELSE st[1],
      XoStep(st[2])>>

\* The inner loop of jump for b in lo..hi-1, ascending.  (The range is
\* halved and its halves run one after the other, which keeps the depth of
\* the recursion at 6 for the 64 iterations.)
RECURSIVE JumpBits(_, _, _, _)
JumpBits(i, lo, hi, st) ==
    IF Len(st) # 2 THEN st
    ELSE IF hi - lo = 1 THEN JumpBit(i, lo, st)
    ELSE JumpBits(i, (lo + hi) \div 2, hi,
                  JumpBits(i, lo, (lo + hi) \div 2, st))

\* The outer loop of jump, over JUMP[k..4].
RECURSIVE JumpWords(_, _)
JumpWords(k, st) ==
    IF k > Len(JUMP) THEN st
    ELSE JumpWords(k + 1, JumpBits(JUMP[k], 0, 64, st))

\* Mutant: self.s3 = s3 is missing, s3 stays that of the stepped generator.
XoJumpKeepS3(s) ==
    LET st == JumpWords(1, <<<<Zero64, Zero64, Zero64, Zero64>>, s>>)
    IN  <<st[1][1], st[1][2], st[1][3], st[2][4]>>

\* The state jump leaves: the local accumulator.
XoJump(s) == JumpWords(1, <<<<Zero64, Zero64, Zero64, Zero64>>, s>>)[1]

\* Mutant: no preset for the all-zero seed.
XoFromSeedNoPreset(seed) ==
    <<ReadU64LE(seed, 1), ReadU64LE(seed, 2),
      ReadU64LE(seed, 3), ReadU64LE(seed, 4)>>

\* Xoshiro256AARng::from_seed.
XoFromSeed(seed) ==
    LET seed_u64 == <<ReadU64LE(seed, 1), ReadU64LE(seed, 2),
                      ReadU64LE(seed, 3), ReadU64LE(seed, 4)>>
    IN  IF AllZero(seed_u64) THEN ZeroSeedPreset ELSE seed_u64

----------------------------------------------------------------------------
(* rand_core::impls, as the two generators use it                          *)

\* The first n bytes of a word.
Take(bytes, n) == SubSeq(bytes, 1, n)

\* fill_bytes_via_next draws one next_u64 for every full 8 bytes of dest,
\* then one more next_u64 for a rest of 5..7 bytes or one next_u32 for a
\* rest of 1..4 bytes.
FullChunks(n) == n \div 8

Rest(n) == n % 8

----------------------------------------------------------------------------
(* pcg.rs                                                                  *)

PCG_DEFAULT_MULTIPLIER_64 == Dec64(<<6, 364, 136, 223, 846, 793, 5>>)

\* A PcgRng.
Pcg(state, inc) == [state |-> state, inc |-> inc]

\* Byte i (1..4) of the u32 p rotated right by n bits, 0 <= n < 32.
RotR32Byte(p, n, i) ==
    LET q == n \div 8
        r == n % 8
    IN  (p[((i + q - 1) % 4) + 1] \div Pow2(r))
          + ((p[((i + q) % 4) + 1] * Pow2(8 - r)) % 256)

\* u32::rotate_right(n).
RotR32(p, n) ==
    <<RotR32Byte(p, n % 32, 1), RotR32Byte(p, n % 32, 2),
      RotR32Byte(p, n % 32, 3), RotR32Byte(p, n % 32, 4)>>

\* The state next_u32 leaves.
PcgStep(g) ==
    Pcg(Add64(Mul64(g.state, PCG_DEFAULT_MULTIPLIER_64), g.inc), g.inc)

\* The value next_u32 returns, from the state before the update:
\* s >> 59 is the top 5 bits of s, the top byte divided by 8.
PcgOutput(g) ==
    LET s == g.state
        p == SubSeq(Shr64(Xor64(Shr64(s, 18), s), 27), 1, 4)
    IN  RotR32(p, s[8] \div 8)

\* Mutant: inc = seq << 1, without | 1.
PcgNewNoOr(state, seq) ==
    LET rng0 == Pcg(Zero64, Shl64(seq, 1))
        rng1 == PcgStep(rng0)
        rng2 == Pcg(Add64(rng1.state, state), rng1.inc)
    IN  PcgStep(rng2)

\* PcgRng::new.
PcgNew(state, seq) ==
    LET rng0 == Pcg(Zero64, Or64(Shl64(seq, 1), One64))
        rng1 == PcgStep(rng0)
        rng2 == Pcg(Add64(rng1.state, state), rng1.inc)
    IN  PcgStep(rng2)

\* delta / 2.
Half64(delta) == Shr64(delta, 1)

\* Mutant: cur_mult is squared before cur_plus is updated with it.
AdvanceIterSquaredFirst(v) ==
    LET cur_plus == v[1]
        cur_mult == v[2]
        odd      == Bit64(v[5], 0) > 0
        squared  == Mul64(cur_mult, cur_mult)
    IN  <<Mul64(Add64(squared, One64), cur_plus),
          squared,
          IF odd THEN Mul64(v[3], cur_mult) ELSE v[3],
          IF odd THEN Add64(Mul64(v[4], cur_mult), cur_plus) ELSE v[4],
          Half64(v[5])>>

\* The body of the loop of advance; v is the tuple of its locals
\* <<cur_plus, cur_mult, acc_mult, acc_plus, delta>>.
AdvanceIter(v) ==
    LET cur_plus == v[1]
        cur_mult == v[2]
        odd      == Bit64(v[5], 0) > 0
    IN  <<Mul64(Add64(cur_mult, One64), cur_plus),
          Mul64(cur_mult, cur_mult),
          IF odd THEN Mul64(v[3], cur_mult) ELSE v[3],
          IF odd THEN Add64(Mul64(v[4], cur_mult), cur_plus) ELSE v[4],
          Half64(v[5])>>

\* The loop of advance, while delta > 0, for at most n iterations.  (The n
\* iterations are run as two halves, which keeps the recursion shallow.)
RECURSIVE AdvanceLoop(_, _)
AdvanceLoop(n, v) ==
    IF v[5] = Zero64 THEN v
    ELSE IF n = 1 THEN AdvanceIter(v)
    ELSE AdvanceLoop(n - (n \div 2), AdvanceLoop(n \div 2, v))

\* The generator advance(delta) leaves: delta is halved at each iteration,
\* so the loop ends within 64 iterations.
PcgAdvance(g, delta) ==
    LET v == AdvanceLoop(64, <<g.inc, PCG_DEFAULT_MULTIPLIER_64,
                               One64, Zero64, delta>>)
    IN  Pcg(Add64(Mul64(v[3], g.state), v[4]), g.inc)

\* next_u64_via_u32: two next_u32, the first one the low half.  The result
\* is <<generator, value>>.
PcgNextU64(g) ==
    LET x == PcgOutput(g)
        y == PcgOutput(PcgStep(g))
    IN  <<PcgStep(PcgStep(g)), x \o y>>

\* fill_bytes on a dest of n bytes: <<generator, bytes written>>.
RECURSIVE PcgFillBytes(_, _)
PcgFillBytes(g, n) ==
    IF n >= 8
    THEN LET d == PcgNextU64(g)
             r == PcgFillBytes(d[1], n - 8)
         IN  <<r[1], d[2] \o r[2]>>
    ELSE IF n > 4
    THEN LET d == PcgNextU64(g) IN <<d[1], Take(d[2], n)>>
    ELSE IF n > 0 THEN <<PcgStep(g), Take(PcgOutput(g), n)>>
    ELSE <<g, <<>> >>

PcgFromSeed(seed) == PcgNew(ReadU64LE(seed, 1), ReadU64LE(seed, 2))

\* fill_bytes on a dest of n bytes: <<state, bytes written>>.
RECURSIVE XoFillBytes(_, _)
XoFillBytes(s, n) ==
    IF n >= 8
    THEN LET r == XoFillBytes(XoStep(s), n - 8)
         IN  <<r[1], XoResult(s) \o r[2]>>
    ELSE IF n > 4 THEN <<XoStep(s), Take(XoResult(s), n)>>
    ELSE IF n > 0 THEN <<XoStep(s), Take(Take(XoResult(s), 4), n)>>
    ELSE <<s, <<>> >>

\* try_fill_bytes on an existing generator: Ok(self.fill_bytes(dest)).
XoTryFillBytes(s, n) ==
    LET r == XoFillBytes(s, n)
    IN  [ok |-> TRUE, err |-> 0, rng |-> r[1], out |-> r[2]]

PcgTryFillBytes(g, n) ==
    LET r == PcgFillBytes(g, n)
    IN  [ok |-> TRUE, err |-> 0, rng |-> r[1], out |-> r[2]]

----------------------------------------------------------------------------
(* The entropy source handed to from_rng                                   *)

\* One answer of the source's try_fill_bytes: Ok with the bytes it wrote,
\* or Err(err).
OkDraw(bytes) == [ok |-> TRUE, err |-> 0, bytes |-> bytes]

ErrDraw(e) == [ok |-> FALSE, err |-> e, bytes |-> <<>>]

\* The words from_rng finds in seed_u64 after the source wrote the bytes
\* through the raw pointer: the bytes in the byte order of the target.
NativeWords(bytes, k, big) ==
    [j \in 1..k |-> IF big THEN ReadU64BE(bytes, j) ELSE ReadU64LE(bytes, j)]

WordTuple(f, k) == SubSeq(f, 1, k)

\* The loop of Xoshiro256AARng::from_rng on the source src (the sequence of
\* its answers), from its k-th answer on.  done is FALSE when the source as
\* modelled ends while the loop is still drawing.
RECURSIVE XoFromRngLoop(_, _, _)
XoFromRngLoop(src, k, big) ==
    IF k > Len(src)
    THEN [done |-> FALSE, ok |-> FALSE, err |-> 0, draws |-> k - 1,
          rng |-> <<>>]
    ELSE IF ~src[k].ok
    THEN [done |-> TRUE, ok |-> FALSE, err |-> src[k].err, draws |-> k,
          rng |-> <<>>]
    ELSE LET seed_u64 == WordTuple(NativeWords(src[k].bytes, 4, big), 4)
         IN  IF ~AllZero(seed_u64)
             THEN [done |-> TRUE, ok |-> TRUE, err |-> 0, draws |-> k,
                   rng |-> seed_u64]
             ELSE XoFromRngLoop(src, k + 1, big)

\* Mutant: one draw, handed to from_seed with its preset for a zero seed.
XoFromRngViaFromSeed(src, big) ==
    IF Len(src) = 0
    THEN [done |-> FALSE, ok |-> FALSE, err |-> 0, draws |-> 0, rng |-> <<>>]
    ELSE IF ~src[1].ok
    THEN [done |-> TRUE, ok |-> FALSE, err |-> src[1].err, draws |-> 1,
          rng |-> <<>>]
    ELSE LET seed_u64 == WordTuple(NativeWords(src[1].bytes, 4, big), 4)
         IN  [done |-> TRUE, ok |-> TRUE, err |-> 0, draws |-> 1,
              rng |-> IF AllZero(seed_u64) THEN ZeroSeedPreset
                      ELSE seed_u64]

\* Xoshiro256AARng::from_rng on the source src.
XoFromRng(src, big) == XoFromRngLoop(src, 1, big)

\* Mutant: the source's failure is dropped and the zeroed seed_u64 is used.
PcgFromRngIgnoreErr(src, big) ==
    IF Len(src) = 0
    THEN [done |-> FALSE, ok |-> FALSE, err |-> 0, draws |-> 0,
          words |-> <<>>, rng |-> Pcg(Zero64, Zero64)]
    ELSE IF ~src[1].ok
    THEN [done |-> TRUE, ok |-> TRUE, err |-> 0, draws |-> 1,
          words |-> <<Zero64, Zero64>>, rng |-> PcgNew(Zero64, Zero64)]
    ELSE LET seed_u64 == WordTuple(NativeWords(src[1].bytes, 2, big), 2)
         IN  [done |-> TRUE, ok |-> TRUE, err |-> 0, draws |-> 1,
              words |-> seed_u64, rng |-> PcgNew(seed_u64[1], seed_u64[2])]

\* PcgRng::from_rng: one draw of 16 bytes.
PcgFromRng(src, big) ==
    IF Len(src) = 0
    THEN [done |-> FALSE, ok |-> FALSE, err |-> 0, draws |-> 0,
          words |-> <<>>, rng |-> Pcg(Zero64, Zero64)]
    ELSE IF ~src[1].ok
    THEN [done |-> TRUE, ok |-> FALSE, err |-> src[1].err, draws |-> 1,
          words |-> <<>>, rng |-> Pcg(Zero64, Zero64)]
    ELSE LET seed_u64 == WordTuple(NativeWords(src[1].bytes, 2, big), 2)
         IN  [done |-> TRUE, ok |-> TRUE, err |-> 0, draws |-> 1,
              words |-> seed_u64, rng |-> PcgNew(seed_u64[1], seed_u64[2])]

----------------------------------------------------------------------------
(* Bounds and inputs                                                       *)

\* Draws a modelled source can answer.
MaxDraws == 2

\* Single steps a generator takes before the model stops stepping it.
MaxSteps == 4

\* Calls of jump on one generator.
MaxJumps == 1

\* Calls of advance on one generator.
MaxAdvances == 1

\* advance is called with delta in 0..MaxDelta, with the deltas 5 and 1000
\* and with delta = 2^64 - 1.
MaxDelta == 2

ZeroSeed32 == [j \in 1..32 |-> 0]

\* The seed of test_xoshiro256aa_construction and test_xoshiro256aa_jump.
Seed0To31 == [j \in 1..32 |-> j - 1]

\* A seed with a single bit set, the top bit of s3.
SeedTopBit == [j \in 1..32 |-> IF j = 32 THEN 128 ELSE 0]

XoSeeds == {ZeroSeed32, Seed0To31, SeedTopBit}

\* PCG seeds: state 42 with seq 54, and all bits set in both words.
PcgSeeds == {[j \in 1..16 |-> IF j = 1 THEN 42 ELSE IF j = 9 THEN 54 ELSE 0],
             [j \in 1..16 |-> 255]}

Errors == {1, 2}

DrawResults ==
    {OkDraw(ZeroSeed32), OkDraw(Seed0To31)} \cup {ErrDraw(e) : e \in Errors}

Sources == [1..MaxDraws -> DrawResults]

FillLens == {3, 13}

\* 2^64 - a.
Neg64(a) ==
    Add64(<<255 - a[1], 255 - a[2], 255 - a[3], 255 - a[4],
            255 - a[5], 255 - a[6], 255 - a[7], 255 - a[8]>>, One64)

Max64 == Neg64(One64)

Deltas ==
    {Nat64(k) : k \in 0..MaxDelta} \cup {Nat64(5), Nat64(1000), Max64}

----------------------------------------------------------------------------
(* The state machine: one caller holding at most one generator             *)

VARIABLES
    live,      \* "none", "pcg" or "xo": the generator the caller holds
    pcg,       \* the PcgRng when live = "pcg"
    xo,        \* <<s0, s1, s2, s3>> of the Xoshiro256AARng when live = "xo"
    seeded,    \* the seed words the generator was constructed from
    last,      \* the last call: its name, argument and return value
    pre,       \* the generator as it was before the last call
    drawn,     \* the answers the source gave, when the last call is from_rng
    trace,     \* the next_u64 and jump calls since construction, while no
               \* other call was made
    steps,     \* single steps taken since construction
    jumps,     \* calls of jump since construction
    advances   \* calls of advance since construction

vars == <<live, pcg, xo, seeded, last, pre, drawn, trace, steps, jumps,
          advances>>

NoPcg == Pcg(Zero64, Zero64)

NoXo == <<Zero64, Zero64, Zero64, Zero64>>

Call(op, arg, ok, err, out) ==
    [op |-> op, arg |-> arg, ok |-> ok, err |-> err, out |-> out]

Snapshot == [live |-> live, pcg |-> pcg, xo |-> xo]

Untracked == [on |-> FALSE, calls |-> <<>>]

Init ==
    /\ live = "none"
    /\ pcg = NoPcg
    /\ xo = NoXo
    /\ seeded = <<>>
    /\ last = Call("none", Zero64, TRUE, 0, <<>>)
    /\ pre = [live |-> "none", pcg |-> NoPcg, xo |-> NoXo]
    /\ drawn = <<>>
    /\ trace = Untracked
    /\ steps = 0
    /\ jumps = 0
    /\ advances = 0

\* Xoshiro256AARng::from_seed(seed)
XoFromSeedCall ==
    \E seed \in XoSeeds :
        /\ live = "none"
        /\ live' = "xo"
        /\ xo' = XoFromSeed(seed)
        /\ seeded' = WordTuple(NativeWords(seed, 4, FALSE), 4)
        /\ last' = Call("xo_from_seed", Zero64, TRUE, 0, <<>>)
        /\ pre' = Snapshot
        /\ drawn' = <<>>
        /\ trace' = [on |-> TRUE, calls |-> <<>>]
        /\ UNCHANGED <<pcg, steps, jumps, advances>>

\* Xoshiro256AARng::from_rng(src), on a target of either byte order
XoFromRngCall ==
    \E src \in Sources, big \in BOOLEAN :
        LET r == XoFromRng(src, big)
        IN  /\ live = "none"
            /\ r.done
            /\ live' = IF r.ok THEN "xo" ELSE live
            /\ xo' = IF r.ok THEN r.rng ELSE xo
            /\ seeded' = IF r.ok THEN r.rng ELSE seeded
            /\ last' = Call("xo_from_rng", Zero64, r.ok, r.err, <<>>)
            /\ pre' = Snapshot
            /\ drawn' = SubSeq(src, 1, r.draws)
            /\ trace' = [on |-> r.ok, calls |-> <<>>]
            /\ UNCHANGED <<pcg, steps, jumps, advances>>

\* Xoshiro256AARng::next_u64()
XoNextU64Call ==
    /\ live = "xo"
    /\ steps < MaxSteps
    /\ xo' = XoStep(xo)
    /\ last' = Call("xo_next_u64", Zero64, TRUE, 0, XoResult(xo))
    /\ pre' = Snapshot
    /\ drawn' = <<>>
    /\ trace' = IF trace.on
                THEN [on |-> TRUE,
                      calls |-> Append(trace.calls,
                                       [op |-> "next_u64",
                                        out |-> XoResult(xo)])]
                ELSE Untracked
    /\ steps' = steps + 1
    /\ UNCHANGED <<live, pcg, seeded, jumps, advances>>

\* Xoshiro256AARng::next_u32(): the low half of next_u64()
XoNextU32Call ==
    /\ live = "xo"
    /\ steps < MaxSteps
    /\ xo' = XoStep(xo)
    /\ last' = Call("xo_next_u32", Zero64, TRUE, 0, Take(XoResult(xo), 4))
    /\ pre' = Snapshot
    /\ drawn' = <<>>
    /\ trace' = Untracked
    /\ steps' = steps + 1
    /\ UNCHANGED <<live, pcg, seeded, jumps, advances>>

\* Xoshiro256AARng::fill_bytes(dest), dest of n bytes
XoFillBytesCall ==
    \E n \in FillLens :
        /\ live = "xo"
        /\ steps < MaxSteps
        /\ LET r == XoFillBytes(xo, n)
           IN  /\ xo' = r[1]
               /\ last' = Call("xo_fill_bytes", Nat64(n), TRUE, 0, r[2])
        /\ pre' = Snapshot
        /\ drawn' = <<>>
        /\ trace' = Untracked
        /\ steps' = steps + FullChunks(n) + (IF Rest(n) > 0 THEN 1 ELSE 0)
        /\ UNCHANGED <<live, pcg, seeded, jumps, advances>>

\* Xoshiro256AARng::try_fill_bytes(dest), dest of n bytes
XoTryFillBytesCall ==
    \E n \in FillLens :
        LET r == XoTryFillBytes(xo, n)
        IN  /\ live = "xo"
            /\ steps < MaxSteps
            /\ xo' = r.rng
            /\ last' = Call("xo_try_fill_bytes", Nat64(n), r.ok, r.err, r.out)
            /\ pre' = Snapshot
            /\ drawn' = <<>>
            /\ trace' = Untracked
            /\ steps' = steps + FullChunks(n)
                          + (IF Rest(n) > 0 THEN 1 ELSE 0)
            /\ UNCHANGED <<live, pcg, seeded, jumps, advances>>

\* Xoshiro256AARng::jump()
XoJumpCall ==
    /\ live = "xo"
    /\ jumps < MaxJumps
    /\ xo' = XoJump(xo)
    /\ last' = Call("xo_jump", Zero64, TRUE, 0, <<>>)
    /\ pre' = Snapshot
    /\ drawn' = <<>>
    /\ trace' = IF trace.on
                THEN [on |-> TRUE,
                      calls |-> Append(trace.calls,
                                       [op |-> "jump", out |-> <<>>])]
                ELSE Untracked
    /\ jumps' = jumps + 1
    /\ UNCHANGED <<live, pcg, seeded, steps, advances>>

\* PcgRng::from_seed(seed)
PcgFromSeedCall ==
    \E seed \in PcgSeeds :
        /\ live = "none"
        /\ live' = "pcg"
        /\ pcg' = PcgFromSeed(seed)
        /\ seeded' = WordTuple(NativeWords(seed, 2, FALSE), 2)
        /\ last' = Call("pcg_from_seed", Zero64, TRUE, 0, <<>>)
        /\ pre' = Snapshot
        /\ drawn' = <<>>
        /\ UNCHANGED <<xo, trace, steps, jumps, advances>>

\* PcgRng::from_rng(src), on a target of either byte order
PcgFromRngCall ==
    \E src \in Sources, big \in BOOLEAN :
        LET r == PcgFromRng(src, big)
        IN  /\ live = "none"
            /\ r.done
            /\ live' = IF r.ok THEN "pcg" ELSE live
            /\ pcg' = IF r.ok THEN r.rng ELSE pcg
            /\ seeded' = IF r.ok THEN r.words ELSE seeded
            /\ last' = Call("pcg_from_rng", Zero64, r.ok, r.err, <<>>)
            /\ pre' = Snapshot
            /\ drawn' = SubSeq(src, 1, r.draws)
            /\ UNCHANGED <<xo, trace, steps, jumps, advances>>

\* PcgRng::next_u32()
PcgNextU32Call ==
    /\ live = "pcg"
    /\ steps < MaxSteps
    /\ pcg' = PcgStep(pcg)
    /\ last' = Call("pcg_next_u32", Zero64, TRUE, 0, PcgOutput(pcg))
    /\ pre' = Snapshot
    /\ drawn' = <<>>
    /\ steps' = steps + 1
    /\ UNCHANGED <<live, xo, seeded, trace, jumps, advances>>

\* PcgRng::next_u64()
PcgNextU64Call ==
    /\ live = "pcg"
    /\ steps < MaxSteps
    /\ LET r == PcgNextU64(pcg)
       IN  /\ pcg' = r[1]
           /\ last' = Call("pcg_next_u64", Zero64, TRUE, 0, r[2])
    /\ pre' = Snapshot
    /\ drawn' = <<>>
    /\ steps' = steps + 2
    /\ UNCHANGED <<live, xo, seeded, trace, jumps, advances>>

\* PcgRng::fill_bytes(dest), dest of n bytes
PcgFillBytesCall ==
    \E n \in FillLens :
        /\ live = "pcg"
        /\ steps < MaxSteps
        /\ LET r == PcgFillBytes(pcg, n)
           IN  /\ pcg' = r[1]
               /\ last' = Call("pcg_fill_bytes", Nat64(n), TRUE, 0, r[2])
        /\ pre' = Snapshot
        /\ drawn' = <<>>
        /\ steps' = steps + 2 * FullChunks(n)
                      + (IF Rest(n) > 4 THEN 2
                         ELSE IF Rest(n) > 0 THEN 1 ELSE 0)
        /\ UNCHANGED <<live, xo, seeded, trace, jumps, advances>>

\* PcgRng::try_fill_bytes(dest), dest of n bytes
PcgTryFillBytesCall ==
    \E n \in FillLens :
        LET r == PcgTryFillBytes(pcg, n)
        IN  /\ live = "pcg"
            /\ steps < MaxSteps
            /\ pcg' = r.rng
            /\ last' = Call("pcg_try_fill_bytes", Nat64(n), r.ok, r.err,
                            r.out)
            /\ pre' = Snapshot
            /\ drawn' = <<>>
            /\ steps' = steps + 2 * FullChunks(n)
                          + (IF Rest(n) > 4 THEN 2
                             ELSE IF Rest(n) > 0 THEN 1 ELSE 0)
            /\ UNCHANGED <<live, xo, seeded, trace, jumps, advances>>

\* PcgRng::advance(delta)
PcgAdvanceCall ==
    \E delta \in Deltas :
        /\ live = "pcg"
        /\ advances < MaxAdvances
        /\ pcg' = PcgAdvance(pcg, delta)
        /\ last' = Call("pcg_advance", delta, TRUE, 0, <<>>)
        /\ pre' = Snapshot
        /\ drawn' = <<>>
        /\ advances' = advances + 1
        /\ UNCHANGED <<live, xo, seeded, trace, steps, jumps>>

Next ==
    \/ XoFromSeedCall
    \/ XoFromRngCall
    \/ XoNextU64Call
    \/ XoNextU32Call
    \/ XoFillBytesCall
    \/ XoTryFillBytesCall
    \/ XoJumpCall
    \/ PcgFromSeedCall
    \/ PcgFromRngCall
    \/ PcgNextU32Call
    \/ PcgNextU64Call
    \/ PcgFillBytesCall
    \/ PcgTryFillBytesCall
    \/ PcgAdvanceCall

Spec == Init /\ [][Next]_vars

----------------------------------------------------------------------------
(* Claims                                                                  *)

\* The names of the calls of a trace, in order.
Ops(calls) == [i \in 1..Len(calls) |-> calls[i].op]

\* The values the next_u64 calls of a trace returned, in order.
RECURSIVE Outs(_)
Outs(calls) ==
    IF calls = <<>> THEN <<>>
    ELSE IF Head(calls).op = "next_u64"
    THEN <<Head(calls).out>> \o Outs(Tail(calls))
    ELSE Outs(Tail(calls))

\* The seed words of the seed [0, 1, ..., 31].
Words0To31 == WordTuple(NativeWords(Seed0To31, 4, FALSE), 4)

\* A trace of exactly the calls ops on a generator seeded with [0, 1, ..., 31].
Scenario0To31(ops) ==
    /\ live = "xo"
    /\ trace.on
    /\ seeded = Words0To31
    /\ Ops(trace.calls) = ops

\* n single steps of the PCG transition, taken as n \div 2 steps and then
\* the remaining ones.  (The all-zero record steps to itself.)
RECURSIVE StepTimes(_, _)
StepTimes(g, n) ==
    IF n = 0 \/ g = NoPcg THEN g
    ELSE IF n = 1 THEN PcgStep(g)
    ELSE StepTimes(StepTimes(g, n \div 2), n - (n \div 2))

\* A delta below 2^16, and its value.
IsSmall(a) == SubSeq(a, 3, 8) = <<0, 0, 0, 0, 0, 0>>

SmallVal(a) == a[1] + 256 * a[2]

\* C1: advance(delta) leaves the generator in the state that delta single
\* steps state' = state * 6364136223846793005 + inc reach, and advance(0)
\* changes nothing.  For a small delta the steps are taken one by one.  For
\* delta = 2^64 - 1 the steps are counted from the other end: with inc odd
\* and the multiplier = 1 mod 4 the transition is one cycle through all 2^64
\* states, so 2^64 - 1 steps lead to the one state whose successor is the
\* state advance started from.
C1_AdvanceIsDeltaSteps ==
    (live = "pcg" /\ last.op = "pcg_advance") =>
        /\ IsSmall(last.arg) => pcg = StepTimes(pre.pcg, SmallVal(last.arg))
        /\ last.arg = Zero64 => pcg = pre.pcg
        /\ last.arg = Max64 => PcgStep(pcg) = pre.pcg

\* advance(2^64 - 1) was called on a generator that had already stepped.
C1_Witness ==
    /\ live = "pcg"
    /\ last.op = "pcg_advance"
    /\ last.arg = Max64
    /\ steps >= 2
    /\ pcg # pre.pcg

\* C2: the state of a Xoshiro256 generator is never all-zero, after
\* from_seed, after a successful from_rng, and after any calls of next_u32,
\* next_u64, fill_bytes, try_fill_bytes and jump.
C2_StateNeverZero == live = "xo" => ~AllZero(xo)

\* A generator seeded with the all-zero seed has stepped and jumped.
C2_Witness ==
    /\ live = "xo"
    /\ AllZero(seeded)
    /\ steps >= 2
    /\ jumps >= 1
    /\ last.op = "xo_fill_bytes"

\* C3: from_seed with the all-zero seed returns a generator whose state is
\* the preset constant, which is not all-zero, and its first two next_u64
\* outputs are non-zero and distinct.
C3_ZeroSeedSafe ==
    (live = "xo" /\ trace.on /\ AllZero(seeded)) =>
        /\ trace.calls = <<>> => (xo = ZeroSeedPreset /\ ~AllZero(xo))
        /\ \A i \in 1..Len(trace.calls) :
               Ops(SubSeq(trace.calls, 1, i)) = [j \in 1..i |-> "next_u64"]
                   => /\ trace.calls[i].out # Zero64
                      /\ i = 2 => trace.calls[1].out # trace.calls[2].out

\* The zero-seeded generator has returned its first two next_u64 outputs.
C3_Witness ==
    /\ live = "xo"
    /\ trace.on
    /\ AllZero(seeded)
    /\ Ops(trace.calls) = <<"next_u64", "next_u64">>

\* The outputs the scenario of C4 names.
Out1 == Dec64(<<13, 557, 399, 450, 712, 487, 245>>)

Out2 == Dec64(<<2, 706, 373, 525, 0, 986, 293>>)

OutJ1 == Dec64(<<13, 745, 676, 184, 895, 872, 781>>)

OutJ2 == Dec64(<<6, 558, 318, 295, 426, 599, 200>>)

\* The outputs that follow a jump() made after two draws.
OutDJ1 == Dec64(<<13, 974, 214, 932, 198, 612, 911>>)

OutDJ2 == Dec64(<<17, 18, 950, 980, 963, 732, 576>>)

DrawDrawJumpDrawDraw ==
    <<"next_u64", "next_u64", "jump", "next_u64", "next_u64">>

\* C4 as claimed: from_seed([0..31]), next_u64, next_u64, jump, next_u64,
\* next_u64 return 13557399450712487245, 2706373525000986293,
\* 13745676184895872781 and 6558318295426599200.
C4_AsClaimed ==
    Scenario0To31(DrawDrawJumpDrawDraw)
        => Outs(trace.calls) = <<Out1, Out2, OutJ1, OutJ2>>

\* C4, amended: in that scenario the four outputs are 13557399450712487245,
\* 2706373525000986293, 13974214932198612911 and 17018950980963732576 (the
\* two values the claim gives after the jump are those of a generator that
\* jumps before its first draw).
C4_Amended ==
    Scenario0To31(DrawDrawJumpDrawDraw)
        => Outs(trace.calls) = <<Out1, Out2, OutDJ1, OutDJ2>>

\* The scenario has run to its end.
C4_Witness == Scenario0To31(DrawDrawJumpDrawDraw)

\* The procedure of C5 over the bit positions lo..hi-1 of the 256 bits of
\* JUMP (position p is bit p % 64 of word p \div 64), started on the state s:
\* <<the XOR of the states met at the set bits, the state after the steps>>.
RECURSIVE JumpProcedureOn(_, _, _)
JumpProcedureOn(lo, hi, s) ==
    IF hi - lo = 1
    THEN <<IF Bit64(JUMP[(lo \div 64) + 1], lo % 64) = 1 THEN s ELSE NoXo,
           XoStep(s)>>
    ELSE LET mid   == (lo + hi) \div 2
             left  == JumpProcedureOn(lo, mid, s)
             right == JumpProcedureOn(mid, hi, left[2])
         IN  <<XorState(left[1], right[1]), right[2]>>

\* The accumulator of the procedure of C5, run on the state s.
JumpProcedure(s) == JumpProcedureOn(0, 256, s)[1]

\* C5: jump() leaves the accumulator of this procedure as the state: over
\* the 4 JUMP words in order and their bits 0..63 ascending, XOR the
\* current state into the accumulator when the bit is set, then step once.
\* A generator seeded with [0..31] that jumps before any draw then returns
\* 13745676184895872781 and 6558318295426599200.
C5_JumpProcedure ==
    /\ (live = "xo" /\ last.op = "xo_jump") => xo = JumpProcedure(pre.xo)
    /\ \A i \in 1..2 :
           Scenario0To31(SubSeq(<<"jump", "next_u64", "next_u64">>, 1, i + 1))
               => Outs(trace.calls) = SubSeq(<<OutJ1, OutJ2>>, 1, i)

\* The freshly seeded generator has jumped and returned two outputs.
C5_Witness == Scenario0To31(<<"jump", "next_u64", "next_u64">>)

\* x * 5 and x * 9 by shift and add, and rotate_left by shift and or.
Times5(a) == Add64(Shl64(a, 2), a)

Times9(a) == Add64(Shl64(a, 3), a)

RotlByShifts(a, n) == Or64(Shl64(a, n), Shr64(a, 64 - n))

\* C6: next_u64 returns rotate_left(s1 * 5, 7) * 9 of the state before the
\* update, and leaves s0 ^ s1 ^ s3, s0 ^ s1 ^ s2, s0 ^ s2 ^ (s1 << 17) and
\* rotate_left(s1 ^ s3, 45), which is what t = s1 << 17; s2 ^= s0;
\* s3 ^= s1; s1 ^= s2; s0 ^= s3; s2 ^= t; s3 = rotate_left(s3, 45) computes.
\* A generator seeded with [0..31] returns 13557399450712487245 and then
\* 2706373525000986293.
C6_NextU64 ==
    /\ (live = "xo" /\ last.op = "xo_next_u64") =>
           LET s0 == pre.xo[1]
               s1 == pre.xo[2]
               s2 == pre.xo[3]
               s3 == pre.xo[4]
           IN  /\ last.out = Times9(RotlByShifts(Times5(s1), 7))
               /\ xo[1] = Xor64(Xor64(s0, s1), s3)
               /\ xo[2] = Xor64(Xor64(s0, s1), s2)
               /\ xo[3] = Xor64(Xor64(s0, s2), Shl64(s1, 17))
               /\ xo[4] = RotlByShifts(Xor64(s1, s3), 45)
    /\ \A i \in 1..2 :
           Scenario0To31(SubSeq(<<"next_u64", "next_u64">>, 1, i))
               => Outs(trace.calls) = SubSeq(<<Out1, Out2>>, 1, i)

\* The generator seeded with [0..31] has returned its first two outputs.
C6_Witness ==
    /\ Scenario0To31(<<"next_u64", "next_u64">>)
    /\ last.op = "xo_next_u64"

\* The bytes of a draw are all zero.
ZeroDraw(d) == d.ok /\ d.bytes = ZeroSeed32

\* C7: a generator from_rng returns has as its state the four words of the
\* last draw, which are not all zero; every draw before the last was
\* all-zero, so it kept drawing exactly as long as the seed was all-zero;
\* the state is never the preset constant of from_seed put in place of a
\* zero draw.
C7_FromRngRedraws ==
    (last.op = "xo_from_rng" /\ last.ok) =>
        /\ live = "xo"
        /\ Len(drawn) >= 1
        /\ \A i \in 1..(Len(drawn) - 1) : ZeroDraw(drawn[i])
        /\ drawn[Len(drawn)].ok
        /\ ~ZeroDraw(drawn[Len(drawn)])
        /\ \/ xo = WordTuple(NativeWords(drawn[Len(drawn)].bytes, 4, FALSE), 4)
           \/ xo = WordTuple(NativeWords(drawn[Len(drawn)].bytes, 4, TRUE), 4)
        /\ ~AllZero(xo)
        /\ xo # ZeroSeedPreset

\* from_rng returned a generator after an all-zero draw and a re-draw.
C7_Witness ==
    /\ last.op = "xo_from_rng"
    /\ last.ok
    /\ Len(drawn) = 2
    /\ ZeroDraw(drawn[1])

FromRngOps == {"xo_from_rng", "pcg_from_rng"}

\* C8: when the source fails during from_rng, from_rng returns that same
\* failure at once: the failing draw is the last one, the draws before it
\* are the all-zero draws of the Xoshiro256 loop (none for PcgRng), and no
\* generator is constructed; from_rng returns Ok only when no draw failed.
\* No other call returns a failure, and try_fill_bytes on a generator
\* returns Ok.
C8_FailurePropagates ==
    /\ (last.op \in FromRngOps /\ ~last.ok) =>
           /\ Len(drawn) >= 1
           /\ ~drawn[Len(drawn)].ok
           /\ last.err = drawn[Len(drawn)].err
           /\ \A i \in 1..(Len(drawn) - 1) : ZeroDraw(drawn[i])
           /\ last.op = "pcg_from_rng" => Len(drawn) = 1
           /\ live = "none"
           /\ pcg = pre.pcg
           /\ xo = pre.xo
    /\ (last.op \in FromRngOps /\ last.ok)
           => \A i \in 1..Len(drawn) : drawn[i].ok
    /\ ~last.ok => last.op \in FromRngOps
    /\ last.op \in {"xo_try_fill_bytes", "pcg_try_fill_bytes"}
           => (last.ok /\ last.err = 0 /\ live = pre.live)

\* The Xoshiro256 from_rng failed on a re-draw, with the second error.
C8_Witness ==
    /\ last.op = "xo_from_rng"
    /\ ~last.ok
    /\ last.err = 2
    /\ Len(drawn) = 2

\* C9: inc is (seq << 1) | 1, that is 2 * seq + 1 modulo 2^64, for the seq
\* word the generator was constructed from, it is odd, and no call on the
\* generator changes it.
C9_IncOddAndFixed ==
    live = "pcg" =>
        /\ pcg.inc = Add64(Add64(seeded[2], seeded[2]), One64)
        /\ pcg.inc[1] % 2 = 1
        /\ pre.live = "pcg" => pcg.inc = pre.pcg.inc

\* A PcgRng has stepped and advanced by 2^64 - 1.
C9_Witness ==
    /\ live = "pcg"
    /\ steps >= 3
    /\ advances >= 1
    /\ last.op = "pcg_try_fill_bytes"
    /\ seeded[2] = Max64

\* C10: jump() commutes with a single step: jump() and then next_u64()
\* leave the state that next_u64() and then jump() leave.
C10_JumpCommutesWithStep ==
    (live = "xo" /\ last.op = "xo_jump") =>
        XoStep(xo) = XoJump(XoStep(pre.xo))

\* A generator that had already drawn has jumped.
C10_Witness ==
    /\ live = "xo"
    /\ last.op = "xo_jump"
    /\ steps >= 1
    /\ xo # pre.xo

====
